---- MODULE Spec2Model ----
(***************************************************************************)
(* Model of the console UI layer of habitat (components/common/src/ui.rs): *)
(* the ConsoleProgressBar write adapter, the UI::edit flow, the styled     *)
(* writer operations over the out/err streams, the interactive prompts and *)
(* the print_wrapped formatter.                                            *)
(*                                                                         *)
(* Text is a sequence of one-character strings; a glyph or a catalogue     *)
(* label, which holds no line break, is one element of such a sequence.    *)
(* Each component has its own specification over the shared variables; a   *)
(* specification leaves the other components' variables unchanged.         *)
(***************************************************************************)
EXTENDS Integers, Sequences, FiniteSets

VARIABLES
    \* ---- ConsoleProgressBar (ui.rs:820-864)
    total,        \* ConsoleProgressBar.total
    current,      \* ConsoleProgressBar.current
    finishes,     \* number of calls of finish() so far
    pbRet,        \* what the last call on the bar returned
    sized,        \* number of calls of size() so far
    written,      \* number of calls of write() so far
    sizedFirst,   \* size() was called before the first write()
    everEqual,    \* some write() ended with current = total
    overshot,     \* some write() took current from below total to above it
    \* ---- UI::edit (ui.rs:578-610)
    editorEnv,    \* the EDITOR environment variable is set
    edContents,   \* the `contents` argument, a sequence of displayable items
    edPc,         \* "idle", "editing", "exited" or "returned"
    tmpExists,    \* the temporary file exists in the file system
    tmpData,      \* the bytes of the temporary file
    edStatus,     \* exit status of the editor process
    edRet,        \* what edit returned
    edHist,       \* which steps of edit have happened
    \* ---- Shell streams and the UIWriter operations (ui.rs:278-398, 613-772)
    symbolStyle,  \* HAB_SYMBOL_STYLE as to_str resolves it
    outKind,      \* WriteStream variant of shell.out: "Write" or "Stream"
    errKind,      \* WriteStream variant of shell.err
    outColor,     \* colour state of shell.out
    errColor,     \* colour state of shell.err
    outBytes,     \* bytes the latest call wrote to shell.out
    errBytes,     \* bytes the latest call wrote to shell.err
    uiCall,       \* the latest call: operation, argument, stream actions
    uiRet,        \* what the latest call returned: "Ok" or "Err"
    inIsatty,     \* shell.input.isatty
    outIsatty,    \* shell.out.isatty
    errIsatty,    \* shell.err.isatty
    pgRet,        \* what the latest progress() returned, and the calls so far
    \* ---- shell.input and the prompts (ui.rs:501-576, 643-663)
    input,        \* the bytes the input source has not handed out yet
    inSource,     \* what shell.input.inner reads from: "terminal" or "bytes"
    prCall,       \* "none", "yes_no" or "ask"
    prDefault,    \* the `default` argument
    prPc,         \* "idle", "loop", "returned" or "exited"
    prResponse,   \* `response` after the latest read_line
    prRet,        \* what the prompt returned, or the exit status
    prPrompts,    \* number of times the prompt was printed
    prReads,      \* number of read_line calls that returned Ok
    prOrig        \* the input as it was when the prompt was called

pbVars == <<total, current, finishes, pbRet, sized, written, sizedFirst,
            everEqual, overshot>>

edVars == <<editorEnv, edContents, edPc, tmpExists, tmpData, edStatus, edRet,
            edHist>>

ttyVars == <<inIsatty, outIsatty, errIsatty, pgRet>>

uiVars == <<symbolStyle, outKind, errKind, outColor, errColor, outBytes,
            errBytes, uiCall, uiRet, ttyVars>>

prVars == <<input, inSource, prCall, prDefault, prPc, prResponse, prRet,
            prPrompts, prReads, prOrig>>

vars == <<pbVars, edVars, uiVars, prVars>>

\* ---------------------------------------------------------------- bounds
MaxTotal    == 3    \* largest total handed to size()
MaxBuf      == 2    \* largest number of bytes one write() forwards
MaxCurrent  == 5    \* writes stop once current would pass this
MaxFinishes == 3    \* writes stop once finish() would fire more often
MaxSized    == 2    \* size() is called at most this often
MaxWritten  == 4    \* write() is called at most this often
MaxItems    == 2    \* longest `contents` handed to edit
MaxEdited   == 2    \* longest text the editor leaves in the file
MaxMsg      == 3    \* longest message handed to a UIWriter operation
MaxWrapLen  == 5    \* longest text handed to print_wrapped
MaxWidth    == 6    \* largest wrap_width handed to print_wrapped
MaxInLines  == 2    \* number of lines the input source holds
MaxPrompts  == 4    \* a prompt loop is followed for this many rounds
BufCap      == 4    \* capacity of the BufReader of ui.rs:525 (8 KiB in std)
MaxBars     == 3    \* progress() is called at most this often

\* All sequences over S of length at most n.
SeqsUpTo(S, n) == UNION { [1..k -> S] : k \in 0..n }

RECURSIVE Flatten(_)
\* Concatenation of a sequence of texts.
Flatten(ss) == IF ss = <<>> THEN <<>> ELSE Head(ss) \o Flatten(Tail(ss))

Min(a, b) == IF a < b THEN a ELSE b
Max(a, b) == IF a < b THEN b ELSE a

\* ================================================================ text

IsWs(c) == c \in {" ", "\n", "\r", "\t"}

Repeat(c, n) == [i \in 1..n |-> c]

\* Index of the first "\n" of s, 0 when there is none.
FirstNl(s) ==
    IF \E i \in 1..Len(s) : s[i] = "\n"
      THEN CHOOSE i \in 1..Len(s) : s[i] = "\n" /\ \A j \in 1..(i - 1) : s[j] # "\n"
      ELSE 0

StripCr(s) ==
    IF s # <<>> /\ s[Len(s)] = "\r" THEN SubSeq(s, 1, Len(s) - 1) ELSE s

RECURSIVE Lines_KeepLastEmpty(_)
\* As Lines, but a final line break is followed by one more, empty, line.
Lines_KeepLastEmpty(s) ==
    LET i == FirstNl(s)
    IN  IF i = 0 THEN <<StripCr(s)>>
        ELSE <<StripCr(SubSeq(s, 1, i - 1))>>
             \o Lines_KeepLastEmpty(SubSeq(s, i + 1, Len(s)))

RECURSIVE Lines(_)
\* str::lines() as fatal uses it (ui.rs:355): the text is cut after every
\* "\n", the "\n" and a "\r" before it are dropped, and an empty text has no
\* line.
Lines(s) ==
    IF s = <<>> THEN <<>>
    ELSE LET i == FirstNl(s)
         IN  IF i = 0 THEN <<StripCr(s)>>
             ELSE <<StripCr(SubSeq(s, 1, i - 1))>>
                  \o Lines(SubSeq(s, i + 1, Len(s)))

\* ============================================================ streams

NoColor == [fg |-> "none", bold |-> FALSE]

\* ui.rs:60-69  UIColor::to_color
ToColor(c) ==
    CASE c = "Plain"     -> "White"
      [] c = "Info"      -> "Green"
      [] c = "Important" -> "Cyan"
      [] c = "Critical"  -> "Red"
      [] c = "End"       -> "Magenta"
      [] c = "Warn"      -> "Yellow"

\* ColorSpec::new().set_fg(Some(c.to_color())).set_bold(b)
ColorSpec(c, b) == [fg |-> ToColor(c), bold |-> b]

OpReset        == [op |-> "reset", spec |-> NoColor, buf |-> <<>>, styled |-> FALSE]
OpSetColor(sp) == [op |-> "set_color", spec |-> sp, buf |-> <<>>, styled |-> FALSE]
OpWrite(b)     == [op |-> "write", spec |-> NoColor, buf |-> b, styled |-> FALSE]
OpFlush        == [op |-> "flush", spec |-> NoColor, buf |-> <<>>, styled |-> FALSE]
\* a write_all issued between set_color and reset
OpStyled(b)    == [op |-> "write", spec |-> NoColor, buf |-> b, styled |-> TRUE]

\* ui.rs:899-905  print, as the stream actions it issues in order
PrintOps_NoFinalReset(buf, spec) ==
    <<OpReset, OpSetColor(spec), OpStyled(buf), OpFlush>>
PrintOps(buf, spec) ==
    <<OpReset, OpSetColor(spec), OpStyled(buf), OpFlush, OpReset>>

\* ui.rs:907-911  println
PrintlnOps(buf, spec) == PrintOps(buf, spec) \o <<OpWrite(<<"\n">>), OpFlush>>

\* ui.rs:701-738  WriteColor / Write for OutputStream: the effect of one
\* successful stream action on the colour state and the bytes written
Apply(o, kind, st) ==
    CASE o.op = "reset" ->
           [st EXCEPT !.color = NoColor]
      [] o.op = "set_color" ->
           [st EXCEPT !.color = IF kind = "Stream" THEN o.spec ELSE NoColor]
      [] o.op = "write" ->
           [st EXCEPT !.bytes = @ \o [i \in 1..Len(o.buf) |->
                 [ch |-> o.buf[i], color |-> st.color, styled |-> o.styled]]]
      [] o.op = "flush" -> st

\* ui.rs:709-721  reset and set_color of a plain Write sink return Ok(())
\* without touching it; every other stream action can return an error
CanFail(o, kind) == kind = "Stream" \/ o.op \in {"write", "flush"}

RECURSIVE Run_ContinuesAfterFailure(_, _, _, _)
\* As Run, but the failing action is passed over and the later ones run.
Run_ContinuesAfterFailure(ops, failAt, kind, st) ==
    IF ops = <<>> THEN st
    ELSE Run_ContinuesAfterFailure(
             Tail(ops), IF failAt = 0 THEN 0 ELSE failAt - 1, kind,
             IF failAt = 1 THEN st ELSE Apply(Head(ops), kind, st))

RECURSIVE Run(_, _, _, _)
\* The `?` chain of an operation: the stream actions run in order and the
\* first failing one (number failAt, 0 for none) ends the operation.
Run(ops, failAt, kind, st) ==
    IF ops = <<>> \/ failAt = 1 THEN st
    ELSE Run(Tail(ops), IF failAt = 0 THEN 0 ELSE failAt - 1, kind,
             Apply(Head(ops), kind, st))

\* ==================================================== symbols, statuses

\* ui.rs:73-77  UISymbolStyle
Styles == {"Full", "Limited", "Ascii"}

\* ui.rs:116-184  UISymbol::to_str under the resolved style; a glyph outside
\* ASCII is written as its code points
ToStr(sym, style) ==
    IF style = "Ascii" THEN
        CASE sym = "UpArrow" -> "^"          [] sym = "FingerPoint" -> "->"
          [] sym = "CheckMark" -> "[x]"      [] sym = "BoxedCheckMark" -> "#"
          [] sym = "Omega" -> "->"           [] sym = "BoxedX" -> "X"
          [] sym = "RightArrow" -> "->"      [] sym = "Cloud" -> "->"
          [] sym = "DownArrow" -> ">"        [] sym = "Elipses" -> "..."
          [] sym = "DottedTriangle" -> "?"   [] sym = "RightShift" -> ">>"
          [] sym = "Star" -> "*"             [] sym = "SlashedZero" -> "0"
          [] sym = "ErrorX" -> "XXX"
    ELSE IF style = "Limited" THEN
        CASE sym = "UpArrow" -> "U+2191"     [] sym = "FingerPoint" -> "U+2192"
          [] sym = "CheckMark" -> "U+221A"   [] sym = "BoxedCheckMark" -> "U+2302"
          [] sym = "Omega" -> "U+03A9"       [] sym = "BoxedX" -> "U+2591"
          [] sym = "RightArrow" -> "U+2192"  [] sym = "Cloud" -> "U+2302"
          [] sym = "DownArrow" -> "U+2193"   [] sym = "Elipses" -> "U+2026"
          [] sym = "DottedTriangle" -> "U+203C" [] sym = "RightShift" -> "U+00BB"
          [] sym = "Star" -> "U+2261"        [] sym = "SlashedZero" -> "U+00D8"
          [] sym = "ErrorX" -> "XXX"
    ELSE
        CASE sym = "UpArrow" -> "U+2191"     [] sym = "FingerPoint" -> "U+261B"
          [] sym = "CheckMark" -> "U+221A"   [] sym = "BoxedCheckMark" -> "U+2611"
          [] sym = "Omega" -> "U+03A9"       [] sym = "BoxedX" -> "U+2612"
          [] sym = "RightArrow" -> "U+2192"  [] sym = "Cloud" -> "U+2601"
          [] sym = "DownArrow" -> "U+2193"   [] sym = "Elipses" -> "U+2026"
          [] sym = "DottedTriangle" -> "U+2235" [] sym = "RightShift" -> "U+00BB"
          [] sym = "Star" -> "U+2605"        [] sym = "SlashedZero" -> "U+00D8"
          [] sym = "ErrorX" -> "U+2717U+2717U+2717"

\* A status: one of the named variants, or Custom with its symbol and label.
Named(tag) == [tag |-> tag, sym |-> "", label |-> ""]
Custom(sym, label) == [tag |-> "Custom", sym |-> sym, label |-> label]

\* ui.rs:225-264  Status::parts: <<symbol, label, colour>>
Parts(st) ==
    LET t == st.tag IN
    CASE t = "Applying"    -> <<"UpArrow", "Applying", "Info">>
      [] t = "Added"       -> <<"UpArrow", "Added", "Info">>
      [] t = "Adding"      -> <<"FingerPoint", "Adding", "Info">>
      [] t = "Canceled"    -> <<"CheckMark", "Canceled", "Info">>
      [] t = "Canceling"   -> <<"FingerPoint", "Canceling", "Info">>
      [] t = "Cached"      -> <<"BoxedCheckMark", "Cached", "Info">>
      [] t = "Created"     -> <<"CheckMark", "Created", "Info">>
      [] t = "Creating"    -> <<"Omega", "Creating", "Info">>
      [] t = "Deleted"     -> <<"CheckMark", "Deleted", "Info">>
      [] t = "Deleting"    -> <<"BoxedX", "Deleting", "Info">>
      [] t = "Demoted"     -> <<"CheckMark", "Demoted", "Info">>
      [] t = "Demoting"    -> <<"RightArrow", "Demoting", "Info">>
      [] t = "Determining" -> <<"Cloud", "Determining", "Info">>
      [] t = "Downloading" -> <<"DownArrow", "Downloading", "Info">>
      [] t = "DryRunDeleting" ->
             <<"BoxedX", "Would be deleted (Dry run)", "Critical">>
      [] t = "Encrypting"  -> <<"FingerPoint", "Encrypting", "Info">>
      [] t = "Encrypted"   -> <<"CheckMark", "Encrypted", "Info">>
      [] t = "Executing"   -> <<"FingerPoint", "Executing", "Info">>
      [] t = "Found"       -> <<"RightArrow", "Found", "Important">>
      [] t = "Generated"   -> <<"RightArrow", "Generated", "Important">>
      [] t = "Generating"  -> <<"FingerPoint", "Generating", "Info">>
      [] t = "Installed"   -> <<"CheckMark", "Installed", "Info">>
      [] t = "Missing"     -> <<"DottedTriangle", "Missing", "Critical">>
      [] t = "Promoted"    -> <<"CheckMark", "Promoted", "Info">>
      [] t = "Promoting"   -> <<"RightArrow", "Promoting", "Info">>
      [] t = "Signed"      -> <<"CheckMark", "Signed", "Important">>
      [] t = "Signing"     -> <<"FingerPoint", "Signing", "Important">>
      [] t = "Skipping"    -> <<"Elipses", "Skipping", "Info">>
      [] t = "Uploaded"    -> <<"CheckMark", "Uploaded", "Info">>
      [] t = "Uploading"   -> <<"UpArrow", "Uploading", "Info">>
      [] t = "Using"       -> <<"RightArrow", "Using", "Info">>
      [] t = "Verified"    -> <<"CheckMark", "Verified", "Info">>
      [] t = "Verifying"   -> <<"FingerPoint", "Verifying", "Info">>
      [] t = "Custom"      -> <<st.sym, st.label, "Info">>

\* ======================================================= print_wrapped

RECURSIVE SplitParas(_)
\* ui.rs:873  text.split("\n\n")
SplitParas(s) ==
    IF \E i \in 1..(Len(s) - 1) : s[i] = "\n" /\ s[i + 1] = "\n"
      THEN LET i == CHOOSE k \in 1..(Len(s) - 1) :
                      /\ s[k] = "\n" /\ s[k + 1] = "\n"
                      /\ \A j \in 1..(k - 1) : ~(s[j] = "\n" /\ s[j + 1] = "\n")
           IN  <<SubSeq(s, 1, i - 1)>> \o SplitParas(SubSeq(s, i + 2, Len(s)))
      ELSE <<s>>

RECURSIVE SplitWhitespace(_)
\* ui.rs:876  line.split_whitespace(): the maximal runs of non-space
SplitWhitespace(s) ==
    IF s = <<>> THEN <<>>
    ELSE IF IsWs(Head(s)) THEN SplitWhitespace(Tail(s))
    ELSE LET n == IF \E i \in 1..Len(s) : IsWs(s[i])
                    THEN (CHOOSE i \in 1..Len(s) :
                            IsWs(s[i]) /\ \A j \in 1..(i - 1) : ~IsWs(s[j])) - 1
                    ELSE Len(s)
         IN  <<SubSeq(s, 1, n)>> \o SplitWhitespace(SubSeq(s, n + 1, Len(s)))

\* ui.rs:878  `(width + wl + 1) > (wrap_width - left_indent)`
Overflows(width, wl, limit) == width + wl + 1 > limit

RECURSIVE WrapWords(_, _, _, _)
\* ui.rs:876-893  the word loop: the buffers written out, in order
WrapWords(words, limit, buffer, width) ==
    IF words = <<>> THEN (IF buffer # <<>> THEN <<buffer>> ELSE <<>>)
    ELSE LET word == Head(words)
             wl == Len(word)
         IN  IF Overflows(width, wl, limit)
               THEN <<buffer>>
                    \o WrapWords(Tail(words), limit, word \o <<" ">>, wl + 1)
               ELSE WrapWords(Tail(words), limit, buffer \o word \o <<" ">>,
                              width + wl + 1)

\* ui.rs:880, 891  format!("{:<width$}{}\n", " ", buffer, width = left_indent)
FormatLine(buffer, left_indent) ==
    Repeat(" ", Max(left_indent, 1)) \o buffer \o <<"\n">>

RECURSIVE ParaOps(_, _, _)
\* ui.rs:873-895  the writes of the paragraph loop
ParaOps(paras, wrap_width, left_indent) ==
    IF paras = <<>> THEN <<>>
    ELSE LET bufs == WrapWords(SplitWhitespace(Head(paras)),
                               wrap_width - left_indent, <<>>, 0)
         IN  [i \in 1..Len(bufs) |-> OpWrite(FormatLine(bufs[i], left_indent))]
             \o <<OpWrite(<<"\n">>)>>
             \o ParaOps(Tail(paras), wrap_width, left_indent)

\* ui.rs:866-897  print_wrapped, as the stream actions it issues in order
PrintWrappedOps(text, wrap_width, left_indent) ==
    ParaOps(SplitParas(text), wrap_width, left_indent) \o <<OpFlush>>

\* ================================================= ConsoleProgressBar

\* ui.rs:854  `if self.current == self.total`
ReachedTotal_AtLeast(cur, tot) == cur >= tot
ReachedTotal(cur, tot) == cur = tot

\* ui.rs:826-832  Default::default()
PbInit ==
    /\ total = 0
    /\ current = 0
    /\ finishes = 0
    /\ pbRet = [call |-> "new", ok |-> TRUE, n |-> 0]
    /\ sized = 0
    /\ written = 0
    /\ sizedFirst = FALSE
    /\ everEqual = FALSE
    /\ overshot = FALSE

\* ui.rs:835-841  DisplayProgress::size
Size(s) ==
    /\ sized < MaxSized
    /\ total' = s
    /\ sized' = sized + 1
    /\ sizedFirst' = (IF sized = 0 THEN written = 0 ELSE sizedFirst)
    /\ pbRet' = [call |-> "size", ok |-> TRUE, n |-> 0]
    /\ overshot' = FALSE
    /\ everEqual' = FALSE
    /\ UNCHANGED <<current, finishes, written>>

\* ui.rs:850-861  Write::write, the underlying bar forwarding n bytes
WriteOk(n) ==
    /\ written < MaxWritten
    /\ current + n <= MaxCurrent
    /\ LET cur == current + n
           fin == ReachedTotal(cur, total)
       IN  /\ fin => finishes < MaxFinishes
           /\ current' = cur
           /\ finishes' = IF fin THEN finishes + 1 ELSE finishes
           /\ everEqual' = (everEqual \/ cur = total)
           /\ overshot' = (overshot \/ (current < total /\ cur > total))
    /\ pbRet' = [call |-> "write", ok |-> TRUE, n |-> n]
    /\ written' = written + 1
    /\ UNCHANGED <<total, sized, sizedFirst>>

\* ui.rs:859  Write::write, the underlying bar failing
WriteErr ==
    /\ written < MaxWritten
    /\ pbRet' = [call |-> "write", ok |-> FALSE, n |-> 0]
    /\ written' = written + 1
    /\ UNCHANGED <<total, current, finishes, sized, sizedFirst, everEqual,
                   overshot>>

\* ui.rs:863  Write::flush
PbFlush ==
    /\ pbRet.call # "flush"
    /\ pbRet' = [call |-> "flush", ok |-> TRUE, n |-> 0]
    /\ UNCHANGED <<total, current, finishes, sized, written, sizedFirst,
                   everEqual, overshot>>

PbNext ==
    \/ \E s \in 0..MaxTotal : Size(s) /\ UNCHANGED <<edVars, uiVars, prVars>>
    \/ \E n \in 0..MaxBuf : WriteOk(n) /\ UNCHANGED <<edVars, uiVars, prVars>>
    \/ WriteErr /\ UNCHANGED <<edVars, uiVars, prVars>>
    \/ PbFlush /\ UNCHANGED <<edVars, uiVars, prVars>>

\* ========================================================== UI::edit

\* The items a caller hands to edit, and the texts an editor leaves behind.
EdItems == { <<"a">>, <<"b", "\n">> }
EdTexts == SeqsUpTo({"c", "\n"}, MaxEdited)

NoHist == [created |-> FALSE, spawned |-> FALSE, exited |-> FALSE,
           waited |-> FALSE, readBack |-> FALSE]

EdIdle ==
    /\ edContents = <<>>
    /\ edPc = "idle"
    /\ tmpExists = FALSE
    /\ tmpData = <<>>
    /\ edStatus = 0
    /\ edRet = [kind |-> "none", val |-> <<>>]
    /\ edHist = NoHist

EdInit == editorEnv \in BOOLEAN /\ EdIdle

EdFixed == editorEnv = TRUE /\ EdIdle

EdReturn(kind, val) ==
    /\ edPc' = "returned"
    /\ edRet' = [kind |-> kind, val |-> val]

\* ui.rs:607  fs::remove_file on the paths of edit that reach it
RemovesTmp_Always(path) == TRUE
RemovesTmp(path) == path = "ok"

\* ui.rs:581-597  edit up to the spawn of the editor; `fail` names the
\* first call that fails
EditBegin(contents, fail) ==
    /\ edPc = "idle"
    /\ edContents' = contents
    /\ UNCHANGED <<editorEnv, edStatus>>
    /\ IF ~editorEnv
         THEN /\ EdReturn("EditorEnv", <<>>)
              /\ UNCHANGED <<tmpExists, tmpData, edHist>>
       ELSE IF fail = "create"
         THEN /\ EdReturn("Io", <<>>)
              /\ UNCHANGED <<tmpExists, tmpData, edHist>>
       ELSE IF fail = "write" /\ contents # <<>>
         THEN /\ EdReturn("Io", <<>>)
              /\ tmpExists' = ~RemovesTmp("write")
              /\ tmpData' = Flatten(SubSeq(contents, 1, Len(contents) - 1))
              /\ edHist' = [edHist EXCEPT !.created = TRUE]
       ELSE IF (fail = "sync" /\ contents # <<>>) \/ fail = "spawn"
         THEN /\ EdReturn("Io", <<>>)
              /\ tmpExists' = ~RemovesTmp(fail)
              /\ tmpData' = Flatten(contents)
              /\ edHist' = [edHist EXCEPT !.created = TRUE]
       ELSE /\ edPc' = "editing"
            /\ tmpExists' = TRUE
            /\ tmpData' = Flatten(contents)
            /\ edHist' = [edHist EXCEPT !.created = TRUE, !.spawned = TRUE]
            /\ UNCHANGED edRet

\* The editor process: it rewrites (or deletes) the file it was given and
\* exits with a status (the child of ui.rs:597)
EditorRun(text, keep, status) ==
    /\ edPc = "editing"
    /\ edPc' = "exited"
    /\ tmpExists' = keep
    /\ tmpData' = IF keep THEN text ELSE <<>>
    /\ edStatus' = status
    /\ edHist' = [edHist EXCEPT !.exited = TRUE]
    /\ UNCHANGED <<editorEnv, edContents, edRet>>

\* ui.rs:598  status.success()
Success_Always(status) == TRUE
Success(status) == status = 0

\* ui.rs:597-609  edit from the return of wait(); `fail` names the first
\* call that fails
EditFinish(fail) ==
    /\ edPc = "exited"
    /\ UNCHANGED <<editorEnv, edContents, edStatus, tmpData>>
    /\ IF fail = "wait"
         THEN /\ EdReturn("Io", <<>>)
              /\ tmpExists' = (tmpExists /\ ~RemovesTmp("wait"))
              /\ UNCHANGED edHist
       ELSE IF ~Success(edStatus)
         THEN /\ EdReturn("EditStatus", <<>>)
              /\ tmpExists' = (tmpExists /\ ~RemovesTmp("status"))
              /\ edHist' = [edHist EXCEPT !.waited = TRUE]
       ELSE IF fail = "open" \/ ~tmpExists
         THEN /\ EdReturn("Io", <<>>)
              /\ tmpExists' = (tmpExists /\ ~RemovesTmp("open"))
              /\ edHist' = [edHist EXCEPT !.waited = TRUE]
       ELSE IF fail \in {"read", "remove"}
         THEN /\ EdReturn("Io", <<>>)
              /\ tmpExists' = ~RemovesTmp(fail)
              /\ edHist' = [edHist EXCEPT !.waited = TRUE,
                                          !.readBack = (fail = "remove")]
       ELSE /\ EdReturn("Ok", tmpData)
            /\ tmpExists' = ~RemovesTmp("ok")
            /\ edHist' = [edHist EXCEPT !.waited = TRUE, !.readBack = TRUE]

EdNext ==
    \/ \E c \in SeqsUpTo(EdItems, MaxItems),
          f \in {"ok", "create", "write", "sync", "spawn"} :
            EditBegin(c, f) /\ UNCHANGED <<pbVars, uiVars, prVars>>
    \/ \E t \in EdTexts, k \in BOOLEAN, st \in {0, 1} :
            EditorRun(t, k, st) /\ UNCHANGED <<pbVars, uiVars, prVars>>
    \/ \E f \in {"ok", "wait", "open", "read", "remove"} :
            EditFinish(f) /\ UNCHANGED <<pbVars, uiVars, prVars>>

\* ============================================================ UIWriter

\* ui.rs:298-302  begin
BeginOps(message, style) ==
    PrintlnOps(<<ToStr("RightShift", style), " ">> \o message,
               ColorSpec("Warn", TRUE))

\* ui.rs:309-313  end
EndOps(message, style) ==
    PrintlnOps(<<ToStr("Star", style), " ">> \o message, ColorSpec("End", TRUE))

\* ui.rs:320-326  status
StatusOps(status, message, style) ==
    LET p == Parts(status)
    IN  PrintOps(<<ToStr(p[1], style), " ", p[2]>>, ColorSpec(p[3], TRUE))
        \o <<OpWrite(<<" ">> \o message \o <<"\n">>), OpFlush>>

\* ui.rs:333-334  info
InfoOps(text) == <<OpWrite(text \o <<"\n">>), OpFlush>>

\* ui.rs:341-344  warn
WarnOps(message, style) ==
    PrintlnOps(<<ToStr("SlashedZero", style), " ">> \o message,
               ColorSpec("Warn", TRUE))

\* ui.rs:351-364  fatal
FatalOps_NoClosingFrame(message, style) ==
    LET x == ToStr("ErrorX", style)
        ls == Lines(message)
    IN  PrintlnOps(<<x>>, ColorSpec("Critical", TRUE))
        \o Flatten([i \in 1..Len(ls) |->
                      PrintlnOps(<<x, " ">> \o ls[i], ColorSpec("Critical", TRUE))])
FatalOps_LinesReversed(message, style) ==
    LET x == ToStr("ErrorX", style)
        ls == Lines(message)
    IN  PrintlnOps(<<x>>, ColorSpec("Critical", TRUE))
        \o Flatten([i \in 1..Len(ls) |->
                      PrintlnOps(<<x, " ">> \o ls[Len(ls) + 1 - i],
                                 ColorSpec("Critical", TRUE))])
        \o PrintlnOps(<<x>>, ColorSpec("Critical", TRUE))
FatalOps(message, style) ==
    LET x == ToStr("ErrorX", style)
        ls == Lines(message)
    IN  PrintlnOps(<<x>>, ColorSpec("Critical", TRUE))
        \o Flatten([i \in 1..Len(ls) |->
                      PrintlnOps(<<x, " ">> \o ls[i], ColorSpec("Critical", TRUE))])
        \o PrintlnOps(<<x>>, ColorSpec("Critical", TRUE))

\* ui.rs:375  text.as_ref().chars().count(): one per character, whatever
\* the number of bytes its UTF-8 encoding takes ("U+00E9" takes two)
CharCount_Bytes(text) ==
    Len(text) + Cardinality({i \in 1..Len(text) : text[i] = "U+00E9"})
CharCount(text) == Len(text)

\* ui.rs:371-377  title
TitleOps(text) ==
    PrintlnOps(text \o <<"\n">> \o Repeat("=", CharCount(text)) \o <<"\n">>,
               ColorSpec("Info", TRUE))

\* ui.rs:384-387  heading
HeadingOps(text) == PrintlnOps(text \o <<"\n">>, ColorSpec("Info", TRUE))

\* ui.rs:391  para
ParaWidth == 75
ParaIndent == 2
ParaCallOps(text) == PrintWrappedOps(text, ParaWidth, ParaIndent)

\* ui.rs:395-396  br
BrOps == <<OpWrite(<<"\n">>), OpFlush>>

\* ui.rs:479-481  UI::out / UI::err, and the run of an operation's stream
\* actions on the stream it names
PerformW(op, status, arg, width, indent, dst, ops, failAt) ==
    LET kind == IF dst = "out" THEN outKind ELSE errKind
        st0 == [color |-> IF dst = "out" THEN outColor ELSE errColor,
                bytes |-> <<>>]
    IN  /\ failAt # 0 => CanFail(ops[failAt], kind)
        /\ \E st1 \in {Run(ops, failAt, kind, st0)} :
             /\ outColor' = IF dst = "out" THEN st1.color ELSE outColor
             /\ errColor' = IF dst = "err" THEN st1.color ELSE errColor
             /\ outBytes' = IF dst = "out" THEN st1.bytes ELSE <<>>
             /\ errBytes' = IF dst = "err" THEN st1.bytes ELSE <<>>
        /\ uiCall' = [op |-> op, status |-> status, arg |-> arg, width |-> width,
                      indent |-> indent, dst |-> dst, nOps |-> Len(ops),
                      failAt |-> failAt]
        /\ uiRet' = IF failAt = 0 THEN "Ok" ELSE "Err"
        /\ UNCHANGED <<symbolStyle, outKind, errKind, ttyVars>>

Perform(op, status, arg, dst, ops, failAt) ==
    PerformW(op, status, arg, 0, 0, dst, ops, failAt)

NoStatus == Named("")

IdleCall == [op |-> "idle", status |-> NoStatus, arg |-> <<>>, width |-> 0,
             indent |-> 0, dst |-> "out", nOps |-> 0, failAt |-> 0]

\* What the latest call wrote has been consumed from the sinks; the colour
\* state of the streams stays as the call left it.
Drain ==
    /\ uiCall.op # "idle"
    /\ uiCall' = IdleCall
    /\ uiRet' = "Ok"
    /\ outBytes' = <<>>
    /\ errBytes' = <<>>
    /\ UNCHANGED <<symbolStyle, outKind, errKind, outColor, errColor, ttyVars>>

Begin(message) ==
    /\ uiCall.op = "idle"
    /\ \E ops \in {BeginOps(message, symbolStyle)} :
         \E f \in 0..Len(ops) : Perform("begin", NoStatus, message, "out", ops, f)

End(message) ==
    /\ uiCall.op = "idle"
    /\ \E ops \in {EndOps(message, symbolStyle)} :
         \E f \in 0..Len(ops) : Perform("end", NoStatus, message, "out", ops, f)

Status(status, message) ==
    /\ uiCall.op = "idle"
    /\ \E ops \in {StatusOps(status, message, symbolStyle)} :
         \E f \in 0..Len(ops) : Perform("status", status, message, "out", ops, f)

Info(text) ==
    /\ uiCall.op = "idle"
    /\ \E ops \in {InfoOps(text)} :
         \E f \in 0..Len(ops) : Perform("info", NoStatus, text, "out", ops, f)

Warn_ToOut(message) ==
    /\ uiCall.op = "idle"
    /\ \E ops \in {WarnOps(message, symbolStyle)} :
         \E f \in 0..Len(ops) : Perform("warn", NoStatus, message, "out", ops, f)
Warn(message) ==
    /\ uiCall.op = "idle"
    /\ \E ops \in {WarnOps(message, symbolStyle)} :
         \E f \in 0..Len(ops) : Perform("warn", NoStatus, message, "err", ops, f)

Fatal(message) ==
    /\ uiCall.op = "idle"
    /\ \E ops \in {FatalOps(message, symbolStyle)} :
         \E f \in 0..Len(ops) : Perform("fatal", NoStatus, message, "err", ops, f)

Title(text) ==
    /\ uiCall.op = "idle"
    /\ \E ops \in {TitleOps(text)} :
         \E f \in 0..Len(ops) : Perform("title", NoStatus, text, "out", ops, f)

Heading(text) ==
    /\ uiCall.op = "idle"
    /\ \E ops \in {HeadingOps(text)} :
         \E f \in 0..Len(ops) : Perform("heading", NoStatus, text, "out", ops, f)

Para(text) ==
    /\ uiCall.op = "idle"
    /\ \E ops \in {ParaCallOps(text)} :
         \E f \in 0..Len(ops) :
           PerformW("para", NoStatus, text, ParaWidth, ParaIndent, "out", ops, f)

\* ui.rs:866-897  print_wrapped called on shell.out
PrintWrapped(text, wrap_width, left_indent) ==
    /\ uiCall.op = "idle"
    /\ \E ops \in {PrintWrappedOps(text, wrap_width, left_indent)} :
         \E f \in 0..Len(ops) :
           PerformW("print_wrapped", NoStatus, text, wrap_width, left_indent,
                    "out", ops, f)

Br ==
    /\ uiCall.op = "idle"
    /\ \E f \in 0..Len(BrOps) : Perform("br", NoStatus, <<>>, "out", BrOps, f)

\* The messages, texts and statuses handed to the operations.
Msgs == SeqsUpTo({"a", "\n", "\r"}, MaxMsg) \cup {<<"a", "\n", "b">>}
Texts == SeqsUpTo({"a", " ", "\n"}, MaxMsg)
Titles == Msgs \cup {<<"U+00E9">>, <<"R", "e", "p", "o", "r", "t">>}
Statuses == {Named("Promoted"), Named("DryRunDeleting"), Named("Found"),
             Custom("Star", "Done")}

\* ui.rs:411-469  the streams of a UI: both plain Write sinks (with_streams)
\* or both terminal streams (default_with)
Kinds == {"Write", "Stream"}

UiIdle ==
    /\ outColor = NoColor
    /\ errColor = NoColor
    /\ outBytes = <<>>
    /\ errBytes = <<>>
    /\ uiCall = IdleCall
    /\ uiRet = "Ok"

\* ui.rs:463-469  the flags of with_sinks, and no progress() call so far
NoBar == [kind |-> "none", n |-> 0]
TtyFixed ==
    /\ inIsatty = FALSE
    /\ outIsatty = FALSE
    /\ errIsatty = FALSE
    /\ pgRet = NoBar

UiFixed ==
    /\ symbolStyle = "Full" /\ outKind = "Stream" /\ errKind = "Stream"
    /\ UiIdle
    /\ TtyFixed

UiInit ==
    /\ symbolStyle \in Styles
    /\ outKind \in Kinds
    /\ errKind = outKind
    /\ UiIdle
    /\ TtyFixed

\* The texts handed to print_wrapped.
WrapTexts == SeqsUpTo({"a", " ", "\n"}, MaxWrapLen)
             \cup {<<"a", " ", "b", " ", "c", " ", "d", " ", "e">>}

WrNext ==
    \/ /\ uiCall.op = "idle"
       /\ \E t \in WrapTexts, w \in 0..MaxWidth :
            \E i \in 0..w :
              PrintWrapped(t, w, i) /\ UNCHANGED <<pbVars, edVars, prVars>>
    \/ Drain /\ UNCHANGED <<pbVars, edVars, prVars>>

UiNext ==
    \/ /\ uiCall.op = "idle"
       /\ \E m \in Msgs : Begin(m) /\ UNCHANGED <<pbVars, edVars, prVars>>
    \/ /\ uiCall.op = "idle"
       /\ \E m \in Msgs : End(m) /\ UNCHANGED <<pbVars, edVars, prVars>>
    \/ /\ uiCall.op = "idle"
       /\ \E st \in Statuses, m \in Msgs :
            Status(st, m) /\ UNCHANGED <<pbVars, edVars, prVars>>
    \/ /\ uiCall.op = "idle"
       /\ \E m \in Msgs : Info(m) /\ UNCHANGED <<pbVars, edVars, prVars>>
    \/ /\ uiCall.op = "idle"
       /\ \E m \in Msgs : Warn(m) /\ UNCHANGED <<pbVars, edVars, prVars>>
    \/ /\ uiCall.op = "idle"
       /\ \E m \in Msgs : Fatal(m) /\ UNCHANGED <<pbVars, edVars, prVars>>
    \/ /\ uiCall.op = "idle"
       /\ \E m \in Titles : Title(m) /\ UNCHANGED <<pbVars, edVars, prVars>>
    \/ /\ uiCall.op = "idle"
       /\ \E m \in Msgs : Heading(m) /\ UNCHANGED <<pbVars, edVars, prVars>>
    \/ /\ uiCall.op = "idle"
       /\ \E t \in Texts : Para(t) /\ UNCHANGED <<pbVars, edVars, prVars>>
    \/ Br /\ UNCHANGED <<pbVars, edVars, prVars>>
    \/ Drain /\ UNCHANGED <<pbVars, edVars, prVars>>

\* ============================================================= prompts

\* Option: None carries a value of the type that is never read.
None(unread) == [some |-> FALSE, val |-> unread]
Some(v) == [some |-> TRUE, val |-> v]

RECURSIVE TrimStart(_)
TrimStart(s) ==
    IF s # <<>> /\ IsWs(Head(s)) THEN TrimStart(Tail(s)) ELSE s

RECURSIVE TrimEnd(_)
TrimEnd(s) ==
    IF s # <<>> /\ IsWs(s[Len(s)]) THEN TrimEnd(SubSeq(s, 1, Len(s) - 1)) ELSE s

\* str::trim (ui.rs:527, 568, 574)
Trim_StartOnly(s) == TrimStart(s)
Trim(s) == TrimEnd(TrimStart(s))

\* ui.rs:662  one read of the input source into a buffer of cap bytes: the
\* number of bytes handed out.  A terminal hands out one line at most, a byte
\* source as much as it has.
SourceRead(inp, src, cap) ==
    IF src = "terminal" /\ FirstNl(inp) # 0
      THEN Min(cap, FirstNl(inp))
      ELSE Min(cap, Len(inp))

RECURSIVE ReadLine(_, _, _)
\* ui.rs:524-525  BufReader::new(reference).read_line(&mut response): the
\* reader fills its buffer from the source until the buffer holds a "\n" or
\* the source is at its end; the line goes to `response`, and what the buffer
\* holds beyond the line is dropped with the reader.
ReadLine(inp, src, acc) ==
    IF inp = <<>> THEN [response |-> acc, rest |-> <<>>]
    ELSE LET n == SourceRead(inp, src, BufCap)
             buf == SubSeq(inp, 1, n)
             rest == SubSeq(inp, n + 1, Len(inp))
             i == FirstNl(buf)
         IN  IF i # 0
               THEN [response |-> acc \o SubSeq(buf, 1, i), rest |-> rest]
               ELSE ReadLine(rest, src, acc \o buf)

\* ui.rs:503-507  the hint of prompt_yes_no
YesNoHint(default) ==
    IF ~default.some THEN <<"[yes/no/quit]", "", "">>
    ELSE IF default.val THEN <<"[", "Yes", "/no/quit]">>
    ELSE <<"[yes/", "No", "/quit]">>

\* A text literal of the source, as one element of a text; "" is no element.
Lit(str) == IF str = "" THEN <<>> ELSE <<str>>

\* ui.rs:509-521  the prompt of prompt_yes_no
YesNoPromptOps(question, default) ==
    LET h == YesNoHint(default)
    IN  PrintOps(question, ColorSpec("Important", FALSE))
        \o PrintOps(<<" ">> \o Lit(h[1]), ColorSpec("Plain", FALSE))
        \o PrintOps(Lit(h[2]), ColorSpec("Plain", TRUE))
        \o PrintOps(Lit(h[3]) \o <<" ">>, ColorSpec("Plain", FALSE))

\* ui.rs:527  response.trim().chars().next().unwrap_or('\n')
FirstChar(response) ==
    IF Trim(response) = <<>> THEN "\n" ELSE Head(Trim(response))

\* ui.rs:527-538  the match of prompt_yes_no
YesNoAnswer_EmptyIsNo(c, default) ==
    IF c \in {"y", "Y"} THEN "true"
    ELSE IF c \in {"n", "N"} THEN "false"
    ELSE IF c \in {"q", "Q"} THEN "exit"
    ELSE IF c = "\n" THEN "false"
    ELSE "continue"
YesNoAnswer(c, default) ==
    IF c \in {"y", "Y"} THEN "true"
    ELSE IF c \in {"n", "N"} THEN "false"
    ELSE IF c \in {"q", "Q"} THEN "exit"
    ELSE IF c = "\n"
      THEN (IF default.some THEN (IF default.val THEN "true" ELSE "false")
            ELSE "continue")
    ELSE "continue"

\* ui.rs:545-562  the prompt of prompt_ask
AskPromptOps(question, default) ==
    PrintOps(question, ColorSpec("Important", FALSE))
    \o <<OpWrite(<<":", " ">>)>>
    \o (IF default.some
          THEN PrintOps(<<"[default: ">>, ColorSpec("Plain", FALSE))
               \o PrintOps(default.val, ColorSpec("Plain", TRUE))
               \o PrintOps(<<"]">>, ColorSpec("Plain", FALSE))
          ELSE <<>>)
    \o <<OpWrite(<<" ">>), OpFlush>>

\* ui.rs:568-574  what prompt_ask does with the line read
AskAnswer(response, default) ==
    IF Trim(response) = <<>>
      THEN (IF default.some THEN [kind |-> "Ok", val |-> default.val]
            ELSE [kind |-> "continue", val |-> <<>>])
      ELSE [kind |-> "Ok", val |-> Trim(response)]

\* The question asked, the lines an input source may hold, and the inputs.
Question == <<"o", "k", "?">>
InLines == { <<"y", "\n">>, <<" ", "Y", "\n">>, <<"n", "\n">>, <<"N", " ", "\n">>,
             <<"q", "\n">>, <<"Q", "\n">>, <<"x", "\n">>, <<"\n">>, <<" ", "\n">>,
             <<" ", "a", " ", "b", " ", "\n">>, <<"y">>, <<"x">> }
Inputs == { Flatten(ls) : ls \in SeqsUpTo(InLines, MaxInLines) }

PrIdle ==
    /\ prCall = "none"
    /\ prDefault = None(<<>>)
    /\ prPc = "idle"
    /\ prResponse = <<>>
    /\ prRet = [kind |-> "none", val |-> <<>>]
    /\ prPrompts = 0
    /\ prReads = 0
    /\ prOrig = <<>>

\* ui.rs:443-469, 620-630  the input stream a Shell is built with
PrInit == input \in Inputs /\ inSource \in {"terminal", "bytes"} /\ PrIdle

\* ui.rs:463-464  with_sinks: an empty input
PrFixed == input = <<>> /\ inSource = "bytes" /\ PrIdle

PrReturn(kind, val) ==
    /\ prPc' = "returned"
    /\ prRet' = [kind |-> kind, val |-> val]

\* ui.rs:501-507  prompt_yes_no is called
PromptYesNo(default) ==
    /\ prPc = "idle"
    /\ prCall' = "yes_no"
    /\ prDefault' = default
    /\ prPc' = "loop"
    /\ prOrig' = input
    /\ UNCHANGED <<input, inSource, prResponse, prRet, prPrompts, prReads>>
    /\ UNCHANGED uiVars

\* ui.rs:542-543  prompt_ask is called
PromptAsk(default) ==
    /\ prPc = "idle"
    /\ prCall' = "ask"
    /\ prDefault' = default
    /\ prPc' = "loop"
    /\ prOrig' = input
    /\ UNCHANGED <<input, inSource, prResponse, prRet, prPrompts, prReads>>
    /\ UNCHANGED uiVars

\* The prompt of one round is written to shell.out; stream action number
\* failAt fails (0 for none).
PromptWrite(ops, failAt) ==
    /\ failAt # 0 => CanFail(ops[failAt], outKind)
    /\ \E st1 \in {Run(ops, failAt, outKind, [color |-> outColor, bytes |-> <<>>])} :
         /\ outColor' = st1.color
         /\ outBytes' = st1.bytes
    /\ prPrompts' = prPrompts + 1
    /\ UNCHANGED <<symbolStyle, outKind, errKind, errColor, errBytes, uiCall,
                   uiRet, ttyVars>>
    /\ UNCHANGED <<inSource, prCall, prDefault, prOrig>>

\* ui.rs:508-539  one round of the loop of prompt_yes_no
YesNoRound(failAt, readFails) ==
    /\ prPc = "loop" /\ prCall = "yes_no"
    /\ prPrompts < MaxPrompts
    /\ PromptWrite(YesNoPromptOps(Question, prDefault), failAt)
    /\ IF failAt # 0 \/ readFails
         THEN /\ PrReturn("Err", <<>>)
              /\ UNCHANGED <<input, prResponse, prReads>>
         ELSE \E r \in {ReadLine(input, inSource, <<>>)} :
              \E a \in {YesNoAnswer(FirstChar(r.response), prDefault)} :
                /\ input' = r.rest
                /\ prResponse' = r.response
                /\ prReads' = prReads + 1
                /\ CASE a = "true" -> PrReturn("Ok", TRUE)
                     [] a = "false" -> PrReturn("Ok", FALSE)
                     [] a = "exit" -> prPc' = "exited" /\ prRet' = [kind |-> "exit", val |-> 0]
                     [] a = "continue" -> UNCHANGED <<prPc, prRet>>

\* ui.rs:544-575  one round of the loop of prompt_ask
AskRound(failAt, readFails) ==
    /\ prPc = "loop" /\ prCall = "ask"
    /\ prPrompts < MaxPrompts
    /\ PromptWrite(AskPromptOps(Question, prDefault), failAt)
    /\ IF failAt # 0 \/ readFails
         THEN /\ PrReturn("Err", <<>>)
              /\ UNCHANGED <<input, prResponse, prReads>>
         ELSE \E r \in {ReadLine(input, inSource, <<>>)} :
              \E a \in {AskAnswer(r.response, prDefault)} :
                /\ input' = r.rest
                /\ prResponse' = r.response
                /\ prReads' = prReads + 1
                /\ IF a.kind = "Ok" THEN PrReturn("Ok", a.val)
                   ELSE UNCHANGED <<prPc, prRet>>

PrNext ==
    \/ \E d \in {None(FALSE), Some(TRUE), Some(FALSE)} :
         PromptYesNo(d) /\ UNCHANGED <<pbVars, edVars>>
    \/ \E d \in {None(<<>>), Some(<<"d">>)} :
         PromptAsk(d) /\ UNCHANGED <<pbVars, edVars>>
    \/ /\ prCall = "yes_no"
       /\ \E f \in 0..Len(YesNoPromptOps(Question, prDefault)), rf \in BOOLEAN :
            (f # 0 => ~rf) /\ YesNoRound(f, rf) /\ UNCHANGED <<pbVars, edVars>>
    \/ /\ prCall = "ask"
       /\ \E f \in 0..Len(AskPromptOps(Question, prDefault)), rf \in BOOLEAN :
            (f # 0 => ~rf) /\ AskRound(f, rf) /\ UNCHANGED <<pbVars, edVars>>

\* ===================================================== specifications

\* ================================================== UI::progress

\* ui.rs:652-655, 686-697  the isatty flag of a standard stream: the
\* caller's hint when there is one, what tty::isatty detects otherwise
Isatty(hint, detected) == IF hint.some THEN hint.val ELSE detected

Hints == {None(FALSE), Some(TRUE), Some(FALSE)}

\* ui.rs:411-413, 443-459  UI::default_with(coloring, isatty) over the
\* standard streams, or UI::with_streams(.., isatty) over plain Write sinks
\* with the one flag for all three streams
TtyInit ==
    \E ctor \in {"default_with", "with_streams"}, hint \in Hints,
       din \in BOOLEAN, dout \in BOOLEAN, derr \in BOOLEAN :
        /\ ctor = "with_streams" => hint.some
        /\ outKind = IF ctor = "with_streams" THEN "Write" ELSE "Stream"
        /\ errKind = outKind
        /\ inIsatty = Isatty(hint, din)
        /\ outIsatty = Isatty(hint, dout)
        /\ errIsatty = Isatty(hint, derr)
        /\ symbolStyle = "Full"
        /\ pgRet = NoBar
        /\ UiIdle

\* ui.rs:497-499  is_a_tty
IsATty == inIsatty /\ outIsatty /\ errIsatty

\* ui.rs:483, 677  is_out_a_terminal
IsOutATerminal_IsATty == IsATty
IsOutATerminal == outIsatty

\* ui.rs:487-493  progress: Some(ConsoleProgressBar::default()), the bar of
\* PbInit, or None
Progress ==
    /\ pgRet.n < MaxBars
    /\ IF IsOutATerminal
         THEN /\ pgRet' = [kind |-> "Some", n |-> pgRet.n + 1]
              /\ total' = 0
              /\ current' = 0
              /\ finishes' = 0
              /\ pbRet' = [call |-> "new", ok |-> TRUE, n |-> 0]
              /\ sized' = 0
              /\ written' = 0
              /\ sizedFirst' = FALSE
              /\ everEqual' = FALSE
              /\ overshot' = FALSE
         ELSE /\ pgRet' = [kind |-> "None", n |-> pgRet.n + 1]
              /\ UNCHANGED pbVars
    /\ UNCHANGED <<symbolStyle, outKind, errKind, outColor, errColor, outBytes,
                   errBytes, uiCall, uiRet, inIsatty, outIsatty, errIsatty>>

\* progress(), and the calls on the bar it returned
FactoryNext ==
    \/ Progress /\ UNCHANGED <<edVars, prVars>>
    \/ pgRet.kind = "Some" /\ PbNext

InitProgress == PbInit /\ EdFixed /\ UiFixed /\ PrFixed
SpecProgress == InitProgress /\ [][PbNext]_vars

InitEdit == PbInit /\ EdInit /\ UiFixed /\ PrFixed
SpecEdit == InitEdit /\ [][EdNext]_vars

InitWriter == PbInit /\ EdFixed /\ UiInit /\ PrFixed
SpecWriter == InitWriter /\ [][UiNext]_vars

InitWrap == PbInit /\ EdFixed /\ UiFixed /\ PrFixed
SpecWrap == InitWrap /\ [][WrNext]_vars

InitFactory == PbInit /\ EdFixed /\ TtyInit /\ PrFixed
SpecFactory == InitFactory /\ [][FactoryNext]_vars

InitPrompt == PbInit /\ EdFixed /\ UiFixed /\ PrInit
SpecPrompt == InitPrompt /\ [][PrNext]_vars

\* C1: on a bar sized once before its first write, finish() has fired exactly
\* once if some write ended with the running count equal to the total, and
\* not at all otherwise (never a second time on a later write).
C1_FinishExactlyOnce ==
    (sized = 1 /\ sizedFirst) => finishes = (IF everEqual THEN 1 ELSE 0)

\* C2: on a bar whose total was set once, a write that takes the running
\* count from below the total to above it, and every write after it, does not
\* call finish(), and returns Ok(n) for the n bytes the bar forwarded.
C2_OvershootNeverFinishes ==
    [][ (sized' = 1 /\ overshot' /\ written' = written + 1)
          => /\ finishes' = finishes
             /\ pbRet'.ok => (pbRet'.call = "write" /\ pbRet'.n = current' - current)
      ]_vars

\* C2 witness: a successful write issued after the overshooting one.
C2_Witness ==
    /\ sized = 1 /\ overshot /\ written >= 2 /\ pbRet.call = "write"
    /\ pbRet.ok /\ pbRet.n > 0 /\ current > total + MaxBuf

\* C3: whenever edit has created its temporary file, the file no longer
\* exists when edit returns, whichever way it returns.
C3_TempFileRemoved ==
    (edPc = "returned" /\ edHist.created) => ~tmpExists

\* ---- helpers of the claims about the writer

\* The characters of a run of written bytes.
Chars(bytes) == [i \in 1..Len(bytes) |-> bytes[i].ch]

RECURSIVE OutLines(_)
\* The lines of an output: each ends at a "\n"; what follows the last "\n",
\* if anything, is one more line.
OutLines(s) ==
    IF s = <<>> THEN <<>>
    ELSE LET i == FirstNl(s)
         IN  IF i = 0 THEN <<s>>
             ELSE <<SubSeq(s, 1, i - 1)>> \o OutLines(SubSeq(s, i + 1, Len(s)))

StyledCalls == {"begin", "end", "status", "warn", "fatal", "title", "heading"}

\* C4: a styled operation leaves the colour of its stream reset when it
\* returns, and no byte of an unstyled write is emitted while a colour is set.
C4_NoColorBleed ==
    /\ uiCall.op \in StyledCalls =>
         (IF uiCall.dst = "out" THEN outColor ELSE errColor) = NoColor
    /\ \A i \in 1..Len(outBytes) :
         ~outBytes[i].styled => outBytes[i].color = NoColor
    /\ \A i \in 1..Len(errBytes) :
         ~errBytes[i].styled => errBytes[i].color = NoColor
\* The lines fatal wrote to the error stream.
FatalLines == OutLines(Chars(errBytes))

FatalReturnedOk == uiCall.op = "fatal" /\ uiRet = "Ok"

\* The number of lines a text splits into on line breaks: one per "\n", and
\* one more for what follows the last "\n", if anything.
LineCount(s) ==
    Cardinality({i \in 1..Len(s) : s[i] = "\n"})
    + (IF s # <<>> /\ s[Len(s)] # "\n" THEN 1 ELSE 0)

\* C5 as stated: every fatal(msg) that returns Ok, the empty msg included,
\* has written three or more lines to the error stream.
C5_FatalAtLeastThreeLines ==
    FatalReturnedOk => Len(FatalLines) >= 3

\* C5 as amended: a fatal(msg) that returns Ok has written three or more
\* lines when msg is not empty, and exactly the two framing lines when it is.
C5_FatalAtLeastThreeLinesUnlessEmpty ==
    FatalReturnedOk =>
        IF uiCall.arg = <<>> THEN Len(FatalLines) = 2 ELSE Len(FatalLines) >= 3

\* C5 witness: fatal("\n"), whose one line is empty, has written 3 lines.
C5_Witness ==
    FatalReturnedOk /\ uiCall.arg = <<"\n">> /\ Len(FatalLines) = 3

\* C6: a fatal(msg) that returns Ok, for a msg of k lines, has written k+2
\* lines: the error glyph alone, then "<glyph> <line>" for each line of msg
\* in order, then the error glyph alone; fatal("a\nb") has written 4 lines.
C6_FatalFraming ==
    FatalReturnedOk =>
        LET x == ToStr("ErrorX", symbolStyle)
            k == LineCount(uiCall.arg)
        IN  /\ Len(FatalLines) = k + 2
            /\ FatalLines[1] = <<x>>
            /\ FatalLines[k + 2] = <<x>>
            /\ \A i \in 1..k : FatalLines[i + 1] = <<x, " ">> \o Lines(uiCall.arg)[i]
            /\ uiCall.arg = <<"a", "\n", "b">> =>
                 FatalLines = << <<x>>, <<x, " ", "a">>, <<x, " ", "b">>, <<x>> >>

\* C6 witness: fatal("a\nb") has returned Ok with 4 lines written.
C6_Witness ==
    FatalReturnedOk /\ uiCall.arg = <<"a", "\n", "b">> /\ Len(FatalLines) = 4

\* ---- helpers of the claims about the prompts

\* The first character of s that is not white space, "" when there is none.
FirstNonWs(s) ==
    IF \E i \in 1..Len(s) : ~IsWs(s[i])
      THEN s[CHOOSE i \in 1..Len(s) : ~IsWs(s[i]) /\ \A j \in 1..(i - 1) : IsWs(s[j])]
      ELSE ""

Blank(s) == \A i \in 1..Len(s) : IsWs(s[i])

\* v is s without its leading and trailing white space (s not blank).
IsTrimOf(v, s) ==
    /\ v # <<>> /\ ~IsWs(v[1]) /\ ~IsWs(v[Len(v)])
    /\ \E i \in 1..Len(s) :
         /\ i + Len(v) - 1 <= Len(s)
         /\ SubSeq(s, i, i + Len(v) - 1) = v
         /\ \A j \in 1..Len(s) : (j < i \/ j > i + Len(v) - 1) => IsWs(s[j])

RECURSIVE RawLine(_, _)
\* The n-th line of s with its line break; empty past the end of s.
RawLine(s, n) ==
    IF s = <<>> THEN <<>>
    ELSE LET i == FirstNl(s)
         IN  IF n = 1 THEN (IF i = 0 THEN s ELSE SubSeq(s, 1, i))
             ELSE IF i = 0 THEN <<>>
             ELSE RawLine(SubSeq(s, i + 1, Len(s)), n - 1)

PromptReturnedOk == prPc = "returned" /\ prRet.kind = "Ok"

\* C7: prompt_yes_no returns true exactly on a line whose first non-blank
\* character is y or Y, or on a blank line with default Some(true); false
\* exactly on n or N, or on a blank line with default Some(false); it exits
\* with status 0 on q or Q; on any other line it stays in its loop.
C7_YesNoDefinitive ==
    prCall = "yes_no" =>
        LET c == FirstNonWs(prResponse)
            yes == c \in {"y", "Y"} \/ (c = "" /\ prDefault.some /\ prDefault.val)
            no == c \in {"n", "N"} \/ (c = "" /\ prDefault.some /\ ~prDefault.val)
            quit == c \in {"q", "Q"}
        IN  /\ PromptReturnedOk =>
                 /\ (prRet.val = TRUE) <=> yes
                 /\ (prRet.val = FALSE) <=> no
            /\ prPc = "exited" => (quit /\ prRet.val = 0)
            /\ (prPc = "loop" /\ prReads >= 1) => (~yes /\ ~no /\ ~quit)

\* C7 witness: after a line that made it ask again, prompt_yes_no has
\* returned true on a blank line with default Some(true).
C7_Witness ==
    /\ prCall = "yes_no" /\ PromptReturnedOk /\ prReads >= 2
    /\ prRet.val = TRUE /\ prResponse # <<>> /\ Blank(prResponse)

\* C8: each round of prompt_yes_no reads the next line of the input, for a
\* terminal and for a byte source alike: the k-th line read is the k-th line
\* of the input, and the call returns having prompted once per line read.
C8_ReadsSuccessiveLines ==
    (prCall = "yes_no" /\ prReads >= 1) =>
        /\ prResponse = RawLine(prOrig, prReads)
        /\ PromptReturnedOk => prPrompts = prReads

\* C9: prompt_ask returns the default on a blank line when there is one and
\* asks again when there is none; on any other line it returns the line
\* without its leading and trailing white space; without a default it never
\* returns the empty string.
C9_AskAnswer ==
    prCall = "ask" =>
        /\ PromptReturnedOk =>
             IF Blank(prResponse)
               THEN prDefault.some /\ prRet.val = prDefault.val
               ELSE IsTrimOf(prRet.val, prResponse)
        /\ (PromptReturnedOk /\ ~prDefault.some) => prRet.val # <<>>
        /\ (prPc = "loop" /\ prReads >= 1) => (Blank(prResponse) /\ ~prDefault.some)

\* C9 witness: prompt_ask has returned "a b" for the line " a b \n".
C9_Witness ==
    /\ prCall = "ask" /\ PromptReturnedOk
    /\ prResponse = <<" ", "a", " ", "b", " ", "\n">>
    /\ prRet.val = <<"a", " ", "b">>

\* The lines the latest call wrote to shell.out.
WrappedLines == OutLines(Chars(outBytes))

\* C10: no line written by print_wrapped(text, width, indent), indent within
\* width, holds more than width - indent characters after its indent; for
\* "a b c d e", width 6, indent 0, no line holds more than 6 characters.
C10_LineWidthBounded ==
    (uiCall.op = "print_wrapped" /\ uiCall.indent <= uiCall.width) =>
        /\ \A i \in 1..Len(WrappedLines) :
             Len(WrappedLines[i]) - uiCall.indent <= uiCall.width - uiCall.indent
        /\ (uiCall.arg = <<"a", " ", "b", " ", "c", " ", "d", " ", "e">>
              /\ uiCall.width = 6 /\ uiCall.indent = 0) =>
             \A i \in 1..Len(WrappedLines) : Len(WrappedLines[i]) <= 6

WrapReturnedOk == uiCall.op = "print_wrapped" /\ uiRet = "Ok"

\* A line that carries a word holds a character that is not white space.
HasWord(line) == \E i \in 1..Len(line) : ~IsWs(line[i])

\* The number of space characters a line holds before its first word.
LeadingSpaces(line) ==
    Cardinality({i \in 1..Len(line) : \A j \in 1..i : line[j] = " "})

\* C11: every line of print_wrapped(text, width, indent) that carries a word
\* begins with exactly indent spaces before its first word, indent 0
\* included, and one empty line is written for each paragraph of text.
C11_IndentExact ==
    WrapReturnedOk =>
        /\ \A i \in 1..Len(WrappedLines) :
             HasWord(WrappedLines[i]) =>
                 LeadingSpaces(WrappedLines[i]) = uiCall.indent
        /\ Cardinality({i \in 1..Len(WrappedLines) : WrappedLines[i] = <<>>})
             = Len(SplitParas(uiCall.arg))

TitleReturnedOk == uiCall.op = "title" /\ uiRet = "Ok"

\* The line of "=" under a title: one "=" for each character of the text.
Underline(text) == [i \in 1..Len(text) |-> "="]

\* C12 as stated: a title(text) that returns Ok has written to out the
\* text, a line break, one "=" for each character of the text, one line
\* break, and nothing else; title("Report") has written "Report\n======\n".
C12_TitleExact ==
    TitleReturnedOk =>
        /\ Chars(outBytes) = uiCall.arg \o <<"\n">> \o Underline(uiCall.arg)
                               \o <<"\n">>
        /\ errBytes = <<>>

\* C12 as amended: a title(text) that returns Ok has written to out the
\* text, a line break, one "=" for each character of the text (not for each
\* byte), and two line breaks: the underline is followed by an empty line.
C12_TitleExactWithEmptyLine ==
    TitleReturnedOk =>
        /\ Chars(outBytes) = uiCall.arg \o <<"\n">> \o Underline(uiCall.arg)
                               \o <<"\n", "\n">>
        /\ errBytes = <<>>
        /\ uiCall.arg = <<"R", "e", "p", "o", "r", "t">> =>
             OutLines(Chars(outBytes))
               = << <<"R", "e", "p", "o", "r", "t">>,
                    <<"=", "=", "=", "=", "=", "=">>, <<>> >>

\* C12 witness: the title of one two-byte character has returned Ok with
\* an underline of one "=".
C12_Witness ==
    /\ TitleReturnedOk /\ uiCall.arg = <<"U+00E9">>
    /\ Chars(outBytes) = <<"U+00E9", "\n", "=", "\n", "\n">>

\* The stream actions of the latest call, in the order the operation issues
\* them.
CallOps ==
    CASE uiCall.op = "begin"   -> BeginOps(uiCall.arg, symbolStyle)
      [] uiCall.op = "end"     -> EndOps(uiCall.arg, symbolStyle)
      [] uiCall.op = "status"  -> StatusOps(uiCall.status, uiCall.arg, symbolStyle)
      [] uiCall.op = "info"    -> InfoOps(uiCall.arg)
      [] uiCall.op = "warn"    -> WarnOps(uiCall.arg, symbolStyle)
      [] uiCall.op = "fatal"   -> FatalOps(uiCall.arg, symbolStyle)
      [] uiCall.op = "title"   -> TitleOps(uiCall.arg)
      [] uiCall.op = "heading" -> HeadingOps(uiCall.arg)
      [] uiCall.op = "para"    -> ParaCallOps(uiCall.arg)
      [] uiCall.op = "print_wrapped" ->
           PrintWrappedOps(uiCall.arg, uiCall.width, uiCall.indent)
      [] uiCall.op = "br"      -> BrOps
      [] OTHER                 -> <<>>

\* The characters of the write actions among the first n of ops.
WrittenBy(ops, n) ==
    Flatten([i \in 1..n |-> IF ops[i].op = "write" THEN ops[i].buf ELSE <<>>])

\* The bytes the latest call wrote to the stream it writes to.
DstBytes == IF uiCall.dst = "out" THEN outBytes ELSE errBytes

\* C13: when a stream action of an operation fails, the operation returns
\* Err and has written what the actions before the failing one wrote and no
\* more: the failing action is not tried again and no later one is run; for
\* fatal, the lines ended are those of the println calls before the failure.
C13_ErrorPropagatesAtOnce ==
    (uiCall.op # "idle" /\ uiCall.failAt # 0) =>
        /\ uiRet = "Err"
        /\ Chars(DstBytes) = WrittenBy(CallOps, uiCall.failAt - 1)
        /\ uiCall.op = "fatal" =>
             Cardinality({i \in 1..Len(errBytes) : errBytes[i].ch = "\n"})
               = uiCall.failAt \div 7

\* C13 witness: fatal("a\nb") has returned Err from the write of its second
\* line, with the first framing line written and nothing after it.
C13_Witness ==
    /\ uiCall.op = "fatal" /\ uiCall.arg = <<"a", "\n", "b">>
    /\ uiCall.failAt = 10 /\ uiRet = "Err"
    /\ FatalLines = << <<ToStr("ErrorX", symbolStyle)>> >>

ErrCalls == {"warn", "fatal"}
OutCalls == {"begin", "end", "status", "info", "title", "heading", "para", "br"}

\* C14: in every step of every run, a call of warn or fatal leaves the bytes
\* and the colour of the out stream as they were and writes to err alone,
\* and a call of begin, end, status, info, title, heading, para or br leaves
\* the bytes and the colour of the err stream as they were and writes to out
\* alone; a call that returns Ok has written to its stream.
C14_StreamsKeptApart ==
    [][ /\ uiCall'.op \in ErrCalls =>
             /\ outBytes' = outBytes /\ outColor' = outColor
             /\ uiRet' = "Ok" => errBytes' # <<>>
        /\ uiCall'.op \in OutCalls =>
             /\ errBytes' = errBytes /\ errColor' = errColor
             /\ uiRet' = "Ok" => outBytes' # <<>>
      ]_vars

\* C14 witness: warn has written to err after an earlier call left a colour
\* set on out, and out holds no byte and still has that colour.
C14_Witness ==
    /\ uiCall.op = "warn" /\ uiRet = "Ok" /\ errBytes # <<>>
    /\ outBytes = <<>> /\ outColor = ColorSpec("End", TRUE)

\* C15: every call of progress() returns a bar exactly when the out stream
\* is a terminal, whatever the input and err streams are, and the bar it
\* returns has total 0 and current 0 whatever was done to an earlier bar.
C15_ProgressIffOutTerminal ==
    [][ pgRet'.n # pgRet.n =>
          /\ pgRet'.kind = (IF outIsatty THEN "Some" ELSE "None")
          /\ pgRet'.kind = "Some" => (total' = 0 /\ current' = 0)
      ]_vars

\* C15 witness: a second progress() has returned a bar with total 0 and
\* current 0 while out is a terminal and input and err are not.
C15_Witness ==
    /\ pgRet = [kind |-> "Some", n |-> 2]
    /\ outIsatty /\ ~inIsatty /\ ~errIsatty
    /\ total = 0 /\ current = 0 /\ written = 0

\* C16: edit runs its steps in the order editor variable, temporary file,
\* spawn, wait, read back: without the editor variable it returns EditorEnv
\* with no file created and no process spawned; when wait() hands back a
\* status that is not success it returns EditStatus with the file not read;
\* and it returns Ok, with what the file holds, only after the editor has
\* exited with success and the file was read.
C16_EditOrder ==
    /\ edHist.spawned => edHist.created
    /\ edHist.exited => edHist.spawned
    /\ edHist.waited => edHist.exited
    /\ edHist.readBack => (edHist.waited /\ edStatus = 0)
    /\ edPc = "returned" =>
         /\ (edRet.kind = "EditorEnv") <=> ~editorEnv
         /\ ~editorEnv => (edHist = NoHist /\ ~tmpExists)
         /\ (edRet.kind = "EditStatus") <=> (edHist.waited /\ edStatus # 0)
         /\ edRet.kind = "EditStatus" => ~edHist.readBack
         /\ edRet.kind = "Ok" =>
              /\ edHist.exited /\ edStatus = 0 /\ edHist.readBack
              /\ edRet.val = tmpData

\* C16 witness: edit has returned Ok with the text the editor left in the
\* file, after the editor exited with status 0.
C16_Witness ==
    /\ edPc = "returned" /\ edRet.kind = "Ok" /\ edRet.val = <<"c", "\n">>
    /\ edContents # <<>> /\ edHist.exited /\ edStatus = 0

RECURSIVE LineGroups(_)
\* The lines of an output, grouped at its empty lines: each group is the run
\* of lines before one empty line.
LineGroups(ls) ==
    IF ls = <<>> THEN <<>>
    ELSE IF \E i \in 1..Len(ls) : ls[i] = <<>>
      THEN LET i == CHOOSE k \in 1..Len(ls) :
                      ls[k] = <<>> /\ \A j \in 1..(k - 1) : ls[j] # <<>>
           IN  <<SubSeq(ls, 1, i - 1)>> \o LineGroups(SubSeq(ls, i + 1, Len(ls)))
      ELSE <<ls>>

\* The words read off a run of lines, in order.
WordsOf(ls) == Flatten([i \in 1..Len(ls) |-> SplitWhitespace(ls[i])])

\* The words print_wrapped wrote are those of its text, paragraph by
\* paragraph and in order.
WordsPreserved ==
    LET paras == SplitParas(uiCall.arg)
        groups == LineGroups(WrappedLines)
    IN  /\ Len(groups) = Len(paras)
        /\ \A k \in 1..Len(paras) :
             WordsOf(groups[k]) = SplitWhitespace(paras[k])

\* C17: a print_wrapped that returns Ok has written, paragraph by paragraph,
\* the words of its text in order, none dropped, repeated, split or moved,
\* and every line it wrote either carries a word or is the one empty line
\* that ends a paragraph.
C17_WordsPreserved ==
    WrapReturnedOk =>
        /\ WordsPreserved
        /\ \A i \in 1..Len(WrappedLines) :
             WrappedLines[i] = <<>> \/ HasWord(WrappedLines[i])

\* The latest read_line met the end of the input: it returned Ok with
\* nothing read.
ReadEof == prReads >= 1 /\ prResponse = <<>>

\* C18: a prompt whose read_line met the end of the input is not left in
\* its loop to prompt again, with a default and without one, so a call
\* prompts at most once for each line of its input and once more at its end.
C18_TerminatesAtEof ==
    prCall \in {"yes_no", "ask"} =>
        /\ ReadEof => prPc # "loop"
        /\ prPrompts <= LineCount(prOrig) + 1

====
